---- MODULE Spec2Model ----
(***************************************************************************)
(* Model of poetry.puzzle.transaction.Transaction: the planner that diffs  *)
(* a resolved package set against the installed packages and returns the   *)
(* sorted list of Install / Update / Uninstall operations.                 *)
(***************************************************************************)
EXTENDS Integers, Sequences, FiniteSets, TLC

(* ------------------------------ bounds -------------------------------- *)
\* longest current / result / installed list drawn in the wide family
MaxLen == 2
\* result priorities are 0..MaxPriority
MaxPriority == 1

(* --------------------------- value domains ---------------------------- *)
\* Python's None, for optional values; Some(x) is a present value
None == <<>>
Some(x) == <<x>>

\* source_type None of a package (falsy in Python)
NoSource == "none"

Names == {"a", "b", "pip"}
\* an installed package starts at version 1; a result package has that version or the next
Versions == {1, 2}
Priorities == 0..MaxPriority
ResultSourceTypes == {NoSource, "legacy", "directory"}
\* an installed package never has source_type "legacy"
InstalledSourceTypes == {NoSource, "directory"}
ExtraNames == {"x"}

\* str.__lt__ on the package names of the model
NameOrd(n) == CASE n = "a" -> 1 [] n = "b" -> 2 [] n = "pip" -> 3 [] OTHER -> 4

Package(n, v, st, opt) ==
    [name |-> n, version |-> v, source_type |-> st, optional |-> opt]

\* the root package: its name and its extras map (extra name -> dependency names)
RootPackages == {[name |-> "b", extras |-> [e \in ExtraNames |-> <<"a">>]]}

(* --------------------------- collaborators ---------------------------- *)
\* Package.is_same_package_as: same name and same source descriptors,
\* whatever the versions
IsSamePackageAs(p, q) ==
    p.name = q.name /\ p.source_type = q.source_type

\* get_extra_package_names(packages, extras_map, selected_extras)
GetExtraPackageNames(packages, extras_map, selected) ==
    IF selected = {} THEN {}
    ELSE {n \in {packages[i].name : i \in 1..Len(packages)} :
            \E e \in selected \cap DOMAIN extras_map :
                \E j \in 1..Len(extras_map[e]) : extras_map[e][j] = n}

\* default priority of Install / Update, priority of Uninstall (float("inf"))
DefaultPriority == 0
InfPriority == 1000

Install(p, prio) ==
    [kind |-> "Install", package |-> p, from |-> None, priority |-> prio, skip_reason |-> None]
Update(initial, target, prio) ==
    [kind |-> "Update", package |-> target, from |-> Some(initial), priority |-> prio, skip_reason |-> None]
Uninstall(p) ==
    [kind |-> "Uninstall", package |-> p, from |-> None, priority |-> InfPriority, skip_reason |-> None]
Skip(op, reason) == [op EXCEPT !.skip_reason = Some(reason)]

(* ------------------------ calculate_operations ------------------------ *)
\* mutant: without the assertion, a missing root package gives an empty closure
ExtraPackages_NoAssert(result, root, extras) ==
    IF extras = None THEN [failed |-> FALSE, called |-> FALSE, names |-> {}]
    ELSE [failed |-> FALSE, called |-> TRUE,
          names |-> IF root = None THEN {}
                    ELSE GetExtraPackageNames([i \in 1..Len(result) |-> result[i].package],
                                              root[1].extras, extras[1])]

\* lines 46-53: the solicited closure, or the failed assertion
ExtraPackages(result, root, extras) ==
    IF extras = None THEN [failed |-> FALSE, called |-> FALSE, names |-> {}]
    ELSE IF root = None THEN [failed |-> TRUE, called |-> FALSE, names |-> {}]
    ELSE [failed |-> FALSE, called |-> TRUE,
          names |-> GetExtraPackageNames([i \in 1..Len(result) |-> result[i].package],
                                         root[1].extras, extras[1])]

\* lines 58-60
IsUnsolicitedExtra(p, extras, extra_packages) ==
    extras # None /\ p.optional /\ p.name \notin extra_packages

\* lines 62-63, 97: index of the first installed package of that name, or 0
FirstMatch(installed, n) ==
    IF \E i \in 1..Len(installed) : installed[i].name = n
    THEN CHOOSE i \in 1..Len(installed) :
            /\ installed[i].name = n
            /\ \A j \in 1..(i - 1) : installed[j].name # n
    ELSE 0

\* mutant: a change of version alone asks for no update
UpdateRequired_IgnoresVersion(rp, ip) ==
    /\ (ip.source_type # NoSource \/ rp.source_type # "legacy")
    /\ ~IsSamePackageAs(rp, ip)

\* mutant: the quirk's "or" written as "and"
UpdateRequired_QuirkAnd(rp, ip) ==
    \/ rp.version # ip.version
    \/ /\ (ip.source_type # NoSource /\ rp.source_type # "legacy")
       /\ ~IsSamePackageAs(rp, ip)

\* mutant: without the legacy quirk
UpdateRequired_NoQuirk(rp, ip) ==
    \/ rp.version # ip.version
    \/ ~IsSamePackageAs(rp, ip)

\* lines 73-88
UpdateRequired(rp, ip) ==
    \/ rp.version # ip.version
    \/ /\ (ip.source_type # NoSource \/ rp.source_type # "legacy")
       /\ ~IsSamePackageAs(rp, ip)

\* mutant: the Install of an unsolicited extra is not skipped
InstallNew_NoSkip(entry, skip_directory, unsolicited) ==
    IF skip_directory /\ entry.package.source_type = "directory" THEN <<>>
    ELSE <<Install(entry.package, entry.priority)>>

\* lines 99-106
InstallNew(entry, skip_directory, unsolicited) ==
    IF skip_directory /\ entry.package.source_type = "directory" THEN <<>>
    ELSE IF unsolicited
         THEN <<Skip(Install(entry.package, entry.priority), "Not required")>>
         ELSE <<Install(entry.package, entry.priority)>>

\* lines 56-106, one iteration of the loop over the result packages
ClassifyPackage(entry, installed, skip_directory, extras, extra_packages) ==
    LET rp == entry.package
        unsolicited == IsUnsolicitedExtra(rp, extras, extra_packages)
        m == FirstMatch(installed, rp.name)
    IN  IF m = 0
        THEN [ops |-> InstallNew(entry, skip_directory, unsolicited), uninstalls |-> {}]
        ELSE IF unsolicited
        THEN [ops |-> <<Uninstall(installed[m])>>, uninstalls |-> {installed[m].name}]
        ELSE IF UpdateRequired(rp, installed[m])
        THEN [ops |-> <<Update(installed[m], rp, entry.priority)>>, uninstalls |-> {}]
        ELSE [ops |-> <<Skip(Install(rp, DefaultPriority), "Already installed")>>,
              uninstalls |-> {}]

\* lines 55-106, the loop over result packages 1..k
RECURSIVE Classify(_, _, _, _, _, _)
Classify(result, k, installed, skip_directory, extras, extra_packages) ==
    IF k = 0 THEN [ops |-> <<>>, uninstalls |-> {}]
    ELSE LET before == Classify(result, k - 1, installed, skip_directory, extras, extra_packages)
             here == ClassifyPackage(result[k], installed, skip_directory, extras, extra_packages)
         IN  [ops |-> before.ops \o here.ops,
              uninstalls |-> before.uninstalls \cup here.uninstalls]

\* lines 116-119: an Uninstall for every installed package of that name
RECURSIVE UninstallsOf(_, _, _)
UninstallsOf(installed, k, n) ==
    IF k = 0 THEN <<>>
    ELSE UninstallsOf(installed, k - 1, n)
         \o (IF installed[k].name = n THEN <<Uninstall(installed[k])>> ELSE <<>>)

ResultNames(result) == {result[i].package.name : i \in 1..Len(result)}

\* lines 109-119, the loop over current packages 1..k
RECURSIVE RemovalSweep(_, _, _, _)
RemovalSweep(current, k, result, installed) ==
    IF k = 0 THEN [ops |-> <<>>, uninstalls |-> {}]
    ELSE LET before == RemovalSweep(current, k - 1, result, installed)
             found == current[k].name \in ResultNames(result)
             ops == IF found THEN <<>>
                    ELSE UninstallsOf(installed, Len(installed), current[k].name)
         IN  [ops |-> before.ops \o ops,
              uninstalls |-> before.uninstalls
                             \cup {ops[i].package.name : i \in 1..Len(ops)}]

\* mutant: pip is not preserved
PreservedPackageNames_None(result) == {}

\* lines 125-127
PreservedPackageNames(result) == {"pip"} \ ResultNames(result)

\* mutant: the root package is not skipped
SyncKeeps_NoRoot(ip, result, root, uninstalls) ==
    \/ ip.name \in uninstalls
    \/ ip.name \in PreservedPackageNames(result)
    \/ ip.name \in ResultNames(result)

\* mutant: packages uninstalled already are not skipped
SyncKeeps_IgnoresUninstalls(ip, result, root, uninstalls) ==
    \/ (root # None /\ ip.name = root[1].name)
    \/ ip.name \in PreservedPackageNames(result)
    \/ ip.name \in ResultNames(result)

\* lines 130-142: is installed package ip left alone by the synchronize sweep
SyncKeeps(ip, result, root, uninstalls) ==
    \/ ip.name \in uninstalls
    \/ (root # None /\ ip.name = root[1].name)
    \/ ip.name \in PreservedPackageNames(result)
    \/ ip.name \in ResultNames(result)

\* lines 121-144, the loop over installed packages 1..k
RECURSIVE SynchronizeSweep(_, _, _, _, _)
SynchronizeSweep(installed, k, result, root, uninstalls) ==
    IF k = 0 THEN [ops |-> <<>>, uninstalls |-> uninstalls]
    ELSE LET before == SynchronizeSweep(installed, k - 1, result, root, uninstalls)
         IN  IF SyncKeeps(installed[k], result, root, before.uninstalls)
             THEN before
             ELSE [ops |-> Append(before.ops, Uninstall(installed[k])),
                   uninstalls |-> before.uninstalls \cup {installed[k].name}]

\* mutant: priority ascending
KeyLess_AscendingPriority(o1, o2) ==
    \/ o1.priority < o2.priority
    \/ /\ o1.priority = o2.priority
       /\ \/ NameOrd(o1.package.name) < NameOrd(o2.package.name)
          \/ /\ o1.package.name = o2.package.name
             /\ o1.package.version < o2.package.version

\* lines 148-152: the sort key (-priority, name, version), compared as tuples
KeyLess(o1, o2) ==
    \/ -o1.priority < -o2.priority
    \/ /\ o1.priority = o2.priority
       /\ \/ NameOrd(o1.package.name) < NameOrd(o2.package.name)
          \/ /\ o1.package.name = o2.package.name
             /\ o1.package.version < o2.package.version

\* lines 146-153: sorted() is stable
RECURSIVE InsertSorted(_, _)
InsertSorted(s, op) ==
    IF s = <<>> THEN <<op>>
    ELSE IF KeyLess(op, s[Len(s)])
         THEN Append(InsertSorted(SubSeq(s, 1, Len(s) - 1), op), s[Len(s)])
         ELSE Append(s, op)

RECURSIVE Sorted(_, _)
Sorted(ops, k) ==
    IF k = 0 THEN <<>> ELSE InsertSorted(Sorted(ops, k - 1), ops[k])

\* mutant: the removal sweep runs whatever with_uninstalls is
Accumulated_SweepsAlways(cur, res, inst, root, wu, sync, skipdir, extras, extra_packages) ==
    LET c == Classify(res, Len(res), inst, skipdir, extras, extra_packages)
        r == RemovalSweep(cur, Len(cur), res, inst)
        s == IF wu /\ sync
             THEN SynchronizeSweep(inst, Len(inst), res, root, c.uninstalls \cup r.uninstalls)
             ELSE [ops |-> <<>>, uninstalls |-> {}]
    IN  c.ops \o r.ops \o s.ops

\* lines 55-144: the operations in the order they are appended
Accumulated(cur, res, inst, root, wu, sync, skipdir, extras, extra_packages) ==
    LET c == Classify(res, Len(res), inst, skipdir, extras, extra_packages)
        r == IF wu THEN RemovalSweep(cur, Len(cur), res, inst)
             ELSE [ops |-> <<>>, uninstalls |-> {}]
        s == IF wu /\ sync
             THEN SynchronizeSweep(inst, Len(inst), res, root, c.uninstalls \cup r.uninstalls)
             ELSE [ops |-> <<>>, uninstalls |-> {}]
    IN  c.ops \o r.ops \o s.ops

\* lines 32-153
CalculateOperations(cur, res, inst, root, wu, sync, skipdir, extras) ==
    LET x == ExtraPackages(res, root, extras)
    IN  IF x.failed
        THEN [error |-> Some("AssertionError"), operations |-> <<>>, resolver_called |-> x.called]
        ELSE LET acc == Accumulated(cur, res, inst, root, wu, sync, skipdir, extras, x.names)
             IN  [error |-> None, operations |-> Sorted(acc, Len(acc)),
                  resolver_called |-> x.called]

(* ------------------------------ executor ------------------------------ *)
\* a package as it surfaces once installed
AsInstalled(p) ==
    IF p.source_type = "legacy" THEN [p EXCEPT !.source_type = NoSource] ELSE p

RECURSIVE Without(_, _)
Without(inst, n) ==
    IF inst = <<>> THEN <<>>
    ELSE (IF Head(inst).name = n THEN <<>> ELSE <<Head(inst)>>) \o Without(Tail(inst), n)

Execute(inst, op) ==
    IF op.skip_reason # None THEN inst
    ELSE IF op.kind = "Install" THEN Append(inst, AsInstalled(op.package))
    ELSE IF op.kind = "Update"
         THEN [i \in 1..Len(inst) |->
                 IF inst[i].name = op.from[1].name THEN AsInstalled(op.package) ELSE inst[i]]
    ELSE Without(inst, op.package.name)

RECURSIVE ExecuteAll(_, _, _)
ExecuteAll(inst, ops, k) ==
    IF k = 0 THEN inst ELSE Execute(ExecuteAll(inst, ops, k - 1), ops[k])

(* ------------------------------- state -------------------------------- *)
VARIABLES
    current_packages,     \* Transaction._current_packages
    result_packages,      \* Transaction._result_packages
    installed_packages,   \* Transaction._installed_packages
    root_package,         \* Transaction._root_package
    with_uninstalls, synchronize, skip_directory, extras,   \* the call's arguments
    pc,                   \* "ready", "returned", "failed", "applied", "replanned"
    operations,           \* the list the last call returned
    error,                \* the exception the last call raised
    resolver_called       \* whether the last call reached get_extra_package_names

inputs == <<current_packages, result_packages, root_package,
            with_uninstalls, synchronize, skip_directory, extras>>
vars == <<current_packages, result_packages, installed_packages, root_package,
          with_uninstalls, synchronize, skip_directory, extras,
          pc, operations, error, resolver_called>>

NameOf(x) == IF "package" \in DOMAIN x THEN x.package.name ELSE x.name

\* name-unique lists of at most n elements of pool (records with a name, or
\* result entries), ascending by name
RECURSIVE Lists(_, _, _)
Lists(pool, n, minOrd) ==
    IF n = 0 THEN {<<>>}
    ELSE {<<>>} \cup
         UNION {{<<p>> \o rest : rest \in Lists(pool, n - 1, NameOrd(NameOf(p)) + 1)} :
                p \in {q \in pool : NameOrd(NameOf(q)) >= minOrd}}

\* deep family: one package name, every attribute combination and every flag
DeepCurrent(n) == Lists({Package(n, 1, NoSource, FALSE)}, 1, 0)
DeepResult(n) ==
    Lists({[package |-> Package(n, v, st, opt), priority |-> prio] :
             v \in Versions, st \in ResultSourceTypes, opt \in BOOLEAN, prio \in Priorities}
          , 1, 0)
DeepInstalled(n) ==
    Lists({Package(n, 1, st, FALSE) : st \in InstalledSourceTypes}, 1, 0)

InitDeep ==
    /\ \E n \in Names :
          /\ current_packages \in DeepCurrent(n)
          /\ result_packages \in DeepResult(n)
          /\ installed_packages \in DeepInstalled(n)
    /\ skip_directory \in BOOLEAN
    /\ extras \in {None} \cup {Some(e) : e \in SUBSET ExtraNames}

\* wide family: up to MaxLen packages per list, all index-sourced and required,
\* so that skip_directory and extras have nothing to act on
WideCurrent == Lists({Package(n, 1, NoSource, FALSE) : n \in Names}, MaxLen, 0)
WideResult ==
    Lists({[package |-> Package(n, v, NoSource, FALSE), priority |-> prio] :
             n \in Names, v \in Versions, prio \in Priorities}, MaxLen, 0)
WideInstalled == Lists({Package(n, 1, NoSource, FALSE) : n \in Names}, MaxLen, 0)

InitWide ==
    /\ current_packages \in WideCurrent
    /\ result_packages \in WideResult
    /\ installed_packages \in WideInstalled
    /\ skip_directory = FALSE
    /\ extras = None

Init ==
    /\ (InitDeep \/ InitWide)
    /\ root_package \in {None} \cup {Some(r) : r \in RootPackages}
    /\ with_uninstalls \in BOOLEAN
    /\ synchronize \in BOOLEAN
    /\ pc = "ready"
    /\ operations = <<>>
    /\ error = None
    /\ resolver_called = FALSE

Call ==
    CalculateOperations(current_packages, result_packages, installed_packages, root_package,
                        with_uninstalls, synchronize, skip_directory, extras)

\* calculate_operations returns its list
Calculate ==
    /\ pc = "ready"
    /\ Call.error = None
    /\ pc' = "returned"
    /\ operations' = Call.operations
    /\ error' = None
    /\ resolver_called' = Call.resolver_called
    /\ UNCHANGED <<inputs, installed_packages>>

\* calculate_operations raises
CalculateFails ==
    /\ pc = "ready"
    /\ Call.error # None
    /\ pc' = "failed"
    /\ error' = Call.error
    /\ resolver_called' = Call.resolver_called
    /\ UNCHANGED <<inputs, installed_packages, operations>>

\* the executor carries the plan out on the environment
ApplyPlan ==
    /\ pc = "returned"
    /\ pc' = "applied"
    /\ installed_packages' = ExecuteAll(installed_packages, operations, Len(operations))
    /\ UNCHANGED <<inputs, operations, error, resolver_called>>

\* a second transaction over the same current / result / root and flags
Recalculate ==
    /\ pc = "applied"
    /\ Call.error = None
    /\ pc' = "replanned"
    /\ operations' = Call.operations
    /\ resolver_called' = Call.resolver_called
    /\ UNCHANGED <<inputs, installed_packages, error>>

Next == Calculate \/ CalculateFails \/ ApplyPlan \/ Recalculate

Spec == Init /\ [][Next]_vars

\* one call of calculate_operations, and nothing after it
NextCall == Calculate \/ CalculateFails

SpecCall == Init /\ [][NextCall]_vars

(* ------------------------- notions of the claims ---------------------- *)
\* calculate_operations has returned `operations` for the packages installed now
Planned == pc \in {"returned", "replanned"}

OpIndex == 1..Len(operations)
InstalledNames == {installed_packages[i].name : i \in 1..Len(installed_packages)}
CurrentNames == {current_packages[i].name : i \in 1..Len(current_packages)}
ResultNameSet == {result_packages[i].package.name : i \in 1..Len(result_packages)}

\* the output holds an operation of that kind on a package of that name
HasOp(kind, n) ==
    \E i \in OpIndex : operations[i].kind = kind /\ operations[i].package.name = n

\* the names the requested extras ask for
Solicited ==
    IF extras = None \/ root_package = None THEN {}
    ELSE GetExtraPackageNames([i \in 1..Len(result_packages) |-> result_packages[i].package],
                              root_package[1].extras, extras[1])

\* result entry e is an optional package the requested extras do not ask for
Unsolicited(e) == extras # None /\ e.package.optional /\ e.package.name \notin Solicited

ResultEntries == {result_packages[i] : i \in 1..Len(result_packages)}
InstalledSet == {installed_packages[i] : i \in 1..Len(installed_packages)}

IsSkippedInstall(op, reason) ==
    op.kind = "Install" /\ op.skip_reason = Some(reason)

(* -------------------------------- C1 ---------------------------------- *)
\* C1 as stated: with synchronize=true and no result package named "pip", the
\* output holds no Uninstall of the installed package named "pip".
C1_PipNeverUninstalled ==
    (Planned /\ synchronize /\ "pip" \notin ResultNameSet) => ~HasOp("Uninstall", "pip")

\* C1 amended: with synchronize=true and no result package named "pip", the output
\* holds no Uninstall of the installed "pip" unless with_uninstalls is true and a
\* current package is named "pip" (the removal sweep then uninstalls it).
C1_PipPreserved ==
    (Planned /\ synchronize /\ "pip" \notin ResultNameSet
       /\ ~(with_uninstalls /\ "pip" \in CurrentNames))
    => ~HasOp("Uninstall", "pip")

\* the synchronize sweep ran over an installed pip that poetry does not manage,
\* and uninstalled another package
C1_Witness ==
    /\ pc = "returned" /\ synchronize /\ with_uninstalls
    /\ "pip" \in InstalledNames /\ "pip" \notin ResultNameSet /\ "pip" \notin CurrentNames
    /\ HasOp("Uninstall", "a")

(* -------------------------------- C2 ---------------------------------- *)
\* C2 as stated: with a root package given, the output holds no Uninstall of the
\* installed package that has the root package's name.
C2_RootNeverUninstalled ==
    (Planned /\ root_package # None) => ~HasOp("Uninstall", root_package[1].name)

\* C2 amended: with a root package given, the output holds no Uninstall of the
\* installed package that has the root package's name, unless with_uninstalls is
\* true and a current package absent from result has that name, or a result package
\* of that name is an unsolicited extra.
C2_RootPreserved ==
    (Planned /\ root_package # None
       /\ ~(with_uninstalls /\ root_package[1].name \in CurrentNames \ ResultNameSet)
       /\ ~\E e \in ResultEntries : e.package.name = root_package[1].name /\ Unsolicited(e))
    => ~HasOp("Uninstall", root_package[1].name)

\* the synchronize sweep ran over the installed root package and uninstalled
\* another package
C2_Witness ==
    /\ pc = "returned" /\ synchronize /\ with_uninstalls /\ root_package # None
    /\ root_package[1].name \in InstalledNames
    /\ root_package[1].name \notin ResultNameSet \cup CurrentNames
    /\ HasOp("Uninstall", "a")

(* -------------------------------- C3 ---------------------------------- *)
\* C3: the returned list holds at most one operation per package name.
C3_OneOperationPerName ==
    Planned => \A i, j \in OpIndex :
                  operations[i].package.name = operations[j].package.name => i = j

\* an Install from the classification phase, an Uninstall from the removal sweep
\* (pip, dropped from current) and an Uninstall from the synchronize sweep
C3_Witness ==
    /\ pc = "returned" /\ synchronize /\ with_uninstalls
    /\ HasOp("Install", "a") /\ HasOp("Uninstall", "pip") /\ HasOp("Uninstall", "b")
    /\ "pip" \in CurrentNames /\ "b" \notin CurrentNames

(* -------------------------------- C4 ---------------------------------- *)
\* every result package has an installed counterpart of the same version that
\* is_same_package_as accepts
AllInstalledAlready ==
    \A e \in ResultEntries :
       \E ip \in InstalledSet :
          /\ ip.name = e.package.name
          /\ ip.version = e.package.version
          /\ IsSamePackageAs(e.package, ip)

OnlyAlreadyInstalled ==
    \A i \in OpIndex : IsSkippedInstall(operations[i], "Already installed")

\* C4 as stated: if every result package is installed already and
\* with_uninstalls=false, every operation is an Install skipped as
\* "Already installed", whatever synchronize, skip_directory and extras are.
C4_NoOpForEveryExtras ==
    (Planned /\ ~with_uninstalls /\ AllInstalledAlready) => OnlyAlreadyInstalled

\* C4 amended: if every result package is installed already, with_uninstalls=false
\* and no result package is an unsolicited extra (extras is None, or every optional
\* result package is in the solicited closure), every operation is an Install
\* skipped as "Already installed".
C4_NoOp ==
    (Planned /\ ~with_uninstalls /\ AllInstalledAlready
       /\ ~\E e \in ResultEntries : Unsolicited(e))
    => OnlyAlreadyInstalled

\* an installed result package, a dropped current package still installed, and
\* synchronize set without with_uninstalls
C4_Witness ==
    /\ pc = "returned" /\ ~with_uninstalls /\ synchronize /\ AllInstalledAlready
    /\ ~\E e \in ResultEntries : Unsolicited(e)
    /\ Len(result_packages) = 1 /\ Len(operations) = 1 /\ OnlyAlreadyInstalled
    /\ \E n \in CurrentNames \cap InstalledNames : n \notin ResultNameSet

(* -------------------------------- C5 ---------------------------------- *)
\* the output holds exactly one Update for entry e, from the installed package ip,
\* and nothing else on that name
UpdatedOnce(e, ip) ==
    /\ Cardinality({i \in OpIndex : operations[i].package.name = e.package.name}) = 1
    /\ \E i \in OpIndex :
          /\ operations[i].kind = "Update"
          /\ operations[i].package = e.package
          /\ operations[i].from = Some(ip)
          /\ operations[i].priority = e.priority
          /\ operations[i].skip_reason = None

\* C5 as stated: every result package whose name matches an installed package of
\* another version gets exactly one Update and neither Install nor Uninstall.
C5_UpdateForEveryVersionChange ==
    Planned => \A e \in ResultEntries : \A ip \in InstalledSet :
                  (ip.name = e.package.name /\ ip.version # e.package.version)
                  => UpdatedOnce(e, ip)

\* C5 amended: every result package that is not an unsolicited extra and whose name
\* matches an installed package of another version gets exactly one Update (from the
\* installed package to the result package, with the entry's priority) and neither
\* Install nor Uninstall.
C5_UpdateNotReinstall ==
    Planned => \A e \in ResultEntries : \A ip \in InstalledSet :
                  (ip.name = e.package.name /\ ip.version # e.package.version
                     /\ ~Unsolicited(e))
                  => UpdatedOnce(e, ip)

\* scenario 1 of the specification, with a priority that is not the default
C5_Witness ==
    /\ pc = "returned"
    /\ result_packages = <<[package |-> Package("a", 2, NoSource, FALSE), priority |-> 1]>>
    /\ installed_packages = <<Package("a", 1, NoSource, FALSE)>>
    /\ operations = <<Update(Package("a", 1, NoSource, FALSE), Package("a", 2, NoSource, FALSE), 1)>>

(* -------------------------------- C6 ---------------------------------- *)
OptionalEntries == {e \in ResultEntries : e.package.optional}

\* the output holds an Uninstall of the installed package named like entry e
UninstalledFor(e) ==
    \E ip \in InstalledSet :
       /\ ip.name = e.package.name
       /\ \E i \in OpIndex : operations[i].kind = "Uninstall" /\ operations[i].package = ip

\* the output holds an Install of entry e skipped as "Not required"
NotRequiredFor(e) ==
    \E i \in OpIndex :
       /\ IsSkippedInstall(operations[i], "Not required")
       /\ operations[i].package = e.package

\* C6 as stated: with extras the empty set, an optional result package that is
\* installed yields an Uninstall, and one that is not installed yields an Install
\* skipped as "Not required", whatever skip_directory is.
C6_ExtrasExclusionForEverySkipDirectory ==
    (Planned /\ extras = Some({}))
    => \A e \in OptionalEntries :
          IF e.package.name \in InstalledNames THEN UninstalledFor(e) ELSE NotRequiredFor(e)

\* C6 amended: with extras the empty set, an optional result package that is
\* installed yields an Uninstall of the installed package; one that is not installed
\* yields an Install skipped as "Not required", unless skip_directory is true and
\* its source type is "directory", in which case it yields no operation.
C6_ExtrasExclusion ==
    (Planned /\ extras = Some({}))
    => \A e \in OptionalEntries :
          IF e.package.name \in InstalledNames THEN UninstalledFor(e)
          ELSE IF skip_directory /\ e.package.source_type = "directory"
               THEN \A i \in OpIndex : operations[i].package.name # e.package.name
               ELSE NotRequiredFor(e)

\* the first call uninstalled an optional package and the second call, with the
\* package gone, reports it as "Not required"
C6_Witness ==
    /\ pc = "replanned" /\ extras = Some({})
    /\ \E e \in OptionalEntries : e.package.name \notin InstalledNames /\ NotRequiredFor(e)

(* -------------------------------- C7 ---------------------------------- *)
\* every reordering of a list
Reorderings(s) ==
    {[i \in 1..Len(s) |-> s[p[i]]] :
       p \in {q \in [1..Len(s) -> 1..Len(s)] : \A i, j \in 1..Len(s) : q[i] = q[j] => i = j}}

\* s and t hold the same elements the same number of times
SameBag(s, t) ==
    /\ Len(s) = Len(t)
    /\ \A x \in {s[i] : i \in 1..Len(s)} \cup {t[i] : i \in 1..Len(t)} :
          Cardinality({i \in 1..Len(s) : s[i] = x}) = Cardinality({i \in 1..Len(t) : t[i] = x})

\* C7 (under SpecCall): the returned list is a permutation of the operations the classification and
\* the sweeps emit, ordered by priority descending, then package name ascending,
\* then package version ascending; and it is the same list for every reordering of
\* the current, result and installed lists.
C7_Ordering ==
    Planned =>
    /\ SameBag(operations,
               Accumulated(current_packages, result_packages, installed_packages,
                           root_package, with_uninstalls, synchronize, skip_directory,
                           extras, Solicited))
    /\ \A i, j \in OpIndex :
          i < j =>
          /\ operations[i].priority >= operations[j].priority
          /\ operations[i].priority = operations[j].priority
             => /\ NameOrd(operations[i].package.name) <= NameOrd(operations[j].package.name)
                /\ operations[i].package.name = operations[j].package.name
                   => operations[i].package.version <= operations[j].package.version
    /\ \A c \in Reorderings(current_packages), r \in Reorderings(result_packages),
          n \in Reorderings(installed_packages) :
          CalculateOperations(c, r, n, root_package, with_uninstalls, synchronize,
                              skip_directory, extras).operations = operations

\* the result lists "a" before "b" and the higher priority of "b" puts its Install
\* first; an Uninstall precedes both
C7_Witness ==
    /\ pc = "returned" /\ Len(operations) = 3 /\ Len(result_packages) = 2
    /\ result_packages[1].package.name = "a" /\ result_packages[1].priority = 0
    /\ result_packages[2].package.name = "b" /\ result_packages[2].priority = 1
    /\ operations[1].kind = "Uninstall"
    /\ operations[2].kind = "Install" /\ operations[2].package.name = "b"
    /\ operations[3].kind = "Install" /\ operations[3].package.name = "a"

(* -------------------------------- C8 ---------------------------------- *)
\* C8: a call with extras given and no root package fails with an assertion error
\* before anything is computed: no list is returned and the extras resolver is not
\* called.
C8_PreconditionFailure ==
    (pc # "ready" /\ extras # None /\ root_package = None)
    => /\ pc = "failed"
       /\ error = Some("AssertionError")
       /\ operations = <<>>
       /\ ~resolver_called

\* the call with extras the empty set and no root package has failed
C8_Witness ==
    pc = "failed" /\ extras = Some({}) /\ root_package = None /\ result_packages # <<>>

(* -------------------------------- C9 ---------------------------------- *)
\* the update condition of the claim
C9_NeedsUpdate(e, ip) ==
    \/ e.package.version # ip.version
    \/ /\ (ip.source_type # NoSource \/ e.package.source_type # "legacy")
       /\ ~IsSamePackageAs(e.package, ip)

\* C9: a result package with a same-named installed package, not an unsolicited
\* extra, gets an Update(installed -> result, priority) if and only if the versions
\* differ, or the installed source_type is present or the result source_type is not
\* "legacy" and is_same_package_as is false; otherwise it gets an Install skipped as
\* "Already installed". An installed package without source_type never gets an
\* Update to a "legacy" result package of the same version.
C9_UpdateDecision ==
    Planned => \A e \in ResultEntries : \A ip \in InstalledSet :
       (ip.name = e.package.name /\ ~Unsolicited(e))
       => /\ IF C9_NeedsUpdate(e, ip)
             THEN \E i \in OpIndex : operations[i] = Update(ip, e.package, e.priority)
             ELSE \E i \in OpIndex :
                     /\ IsSkippedInstall(operations[i], "Already installed")
                     /\ operations[i].package = e.package
          /\ (ip.source_type = NoSource /\ e.package.source_type = "legacy"
                /\ ip.version = e.package.version)
             => ~HasOp("Update", e.package.name)

\* the legacy quirk: is_same_package_as is false, and no Update is planned
C9_Witness ==
    /\ pc = "returned"
    /\ \E e \in ResultEntries : \E ip \in InstalledSet :
          /\ ip.name = e.package.name /\ ip.version = e.package.version
          /\ ip.source_type = NoSource /\ e.package.source_type = "legacy"
          /\ ~IsSamePackageAs(e.package, ip)
          /\ \E i \in OpIndex : IsSkippedInstall(operations[i], "Already installed")

(* -------------------------------- C10 --------------------------------- *)
\* C10: once the plan is carried out, a second call with the same current, result,
\* root and flags plans no Update, no Uninstall and no Install that is not skipped;
\* with with_uninstalls and synchronize both true, the installed names are then
\* among the result names, "pip" and the root package's name.
C10_PlanConverges ==
    pc = "replanned" =>
    /\ \A i \in OpIndex :
          operations[i].kind = "Install" /\ operations[i].skip_reason # None
    /\ (with_uninstalls /\ synchronize)
       => InstalledNames \subseteq
             ResultNameSet \cup {"pip"}
             \cup (IF root_package = None THEN {} ELSE {root_package[1].name})

\* the first plan updated a package from a "directory" source to a "legacy" index,
\* and the second call finds it installed
C10_Witness ==
    /\ pc = "replanned" /\ Len(operations) = 1 /\ Len(installed_packages) = 1
    /\ result_packages[1].package.source_type = "legacy"
    /\ result_packages[1].package.version = 2
    /\ installed_packages[1].version = 2
    /\ installed_packages[1].source_type = NoSource

====
